---- MODULE Spec2Model ----
(***************************************************************************)
(* Model of cornwall_collection.py: the run of main() (environment         *)
(* validation, UPRN lookup, collection fetch, INCLUDE_* filter, iCalendar   *)
(* output) and the year inference of Source._parse_collection_date.        *)
(*                                                                         *)
(* Conventions.                                                            *)
(*   - A Python str that the program inspects (startswith, strip, lower,   *)
(*     replace, concatenation) is a sequence of one-character strings.     *)
(*   - An optional value is a sequence of length 0 (None) or 1.            *)
(*   - A date is a record [year, month, day].                              *)
(*   - A date text "DD Mon" is a record [day, mon]: the numeral and the    *)
(*     month word that "%d %b" tokenises it into.                          *)
(***************************************************************************)
EXTENDS Integers, Sequences, FiniteSets, TLC

VARIABLES
    pc,            \* position of main(): start, resolve, collect, fetched, emit, return, except, done
    environ,       \* os.environ: variable name -> optional value
    today,         \* date.today()
    site_uprn,     \* what the my-area page holds: optional list of <option>s (label, value)
    site_rows,     \* what the collection page holds: list of (kind, date text)
    _uprn,         \* Source._uprn
    _postcode,     \* Source._postcode
    _housenumberorname, \* Source._housenumberorname
    requests,      \* outbound calls made so far, in order
    entries,       \* what Source.fetch returned (main's `collections` before the filter)
    collections,   \* main's `collections` after the filter
    exc,           \* the exception that left the try block, if any
    stdout,        \* log records and printed lines, in order
    ics,           \* optional content of cornwall_collection.ics
    exit_code,     \* optional exit status of the process
    date_str,      \* argument of a stand-alone _parse_collection_date call
    parsed         \* its optional outcome: << >> before the call, <<result>> after

vars == << pc, environ, today, site_uprn, site_rows, _uprn, _postcode,
           _housenumberorname, requests, entries, collections, exc, stdout,
           ics, exit_code, date_str, parsed >>

----------------------------------------------------------------------------
(* Bounds of the model *)

FirstYear == 2023
NumYears == 2
MaxRows == 3
MaxOptions == 2

----------------------------------------------------------------------------
(* Optional values *)

None == << >>
Some(x) == << x >>
IsNone(o) == Len(o) = 0
Get(o) == o[1]

----------------------------------------------------------------------------
(* str operations *)

\* str.startswith
startswith(s, prefix) ==
    /\ Len(prefix) <= Len(s)
    /\ \A i \in 1..Len(prefix) : s[i] = prefix[i]

\* str.replace(' ', '')
replace_spaces(s) == SelectSeq(s, LAMBDA c : c # " ")

UpperCase == << "A","B","C","D","E","F","G","H","I","J","K","L","M",
                "N","O","P","Q","R","S","T","U","V","W","X","Y","Z" >>
LowerCase == << "a","b","c","d","e","f","g","h","i","j","k","l","m",
                "n","o","p","q","r","s","t","u","v","w","x","y","z" >>

\* str.lower
lower(s) ==
    [ i \in 1..Len(s) |->
        IF \E k \in 1..26 : UpperCase[k] = s[i]
        THEN LowerCase[CHOOSE k \in 1..26 : UpperCase[k] = s[i]]
        ELSE s[i] ]

\* str.strip
strip(s) ==
    LET solid == { i \in 1..Len(s) : s[i] # " " }
    IN  IF solid = {} THEN << >>
        ELSE LET lo == CHOOSE i \in solid : \A j \in solid : i <= j
                 hi == CHOOSE i \in solid : \A j \in solid : j <= i
             IN  SubSeq(s, lo, hi)

----------------------------------------------------------------------------
(* datetime.date *)

Date(y, m, d) == [year |-> y, month |-> m, day |-> d]

IsLeap(y) == (y % 4 = 0 /\ y % 100 # 0) \/ y % 400 = 0

DaysInMonth(y, m) ==
    IF m = 2 THEN (IF IsLeap(y) THEN 29 ELSE 28)
    ELSE IF m \in {4, 6, 9, 11} THEN 30 ELSE 31

\* date.__lt__
DateLt(a, b) ==
    \/ a.year < b.year
    \/ a.year = b.year /\ a.month < b.month
    \/ a.year = b.year /\ a.month = b.month /\ a.day < b.day

\* date + timedelta(days=1)
NextDay(a) ==
    IF a.day < DaysInMonth(a.year, a.month) THEN Date(a.year, a.month, a.day + 1)
    ELSE IF a.month < 12 THEN Date(a.year, a.month + 1, 1)
    ELSE Date(a.year + 1, 1, 1)

MonthAbbr == << "Jan", "Feb", "Mar", "Apr", "May", "Jun",
                "Jul", "Aug", "Sep", "Oct", "Nov", "Dec" >>

\* datetime.strptime(f"{date_str} {year}", "%d %b %Y").date(): the date, or
\* None where strptime raises ValueError (no such month word, or no such day
\* in that month of that year).
strptime(text, year) ==
    IF \E m \in 1..12 : MonthAbbr[m] = text.mon
    THEN LET m == CHOOSE k \in 1..12 : MonthAbbr[k] = text.mon
         IN  IF text.day \in 1..DaysInMonth(year, m)
             THEN Some(Date(year, m, text.day))
             ELSE None
    ELSE None

\* _parse_collection_date with the December rule also applied in November
parse_collection_date_from_november(text, now) ==
    LET current_month == now.month
        current_year == now.year
        first == strptime(text, current_year)
    IN  IF IsNone(first) THEN None
        ELSE IF current_month >= 11 /\ Get(first).month <= 2
             THEN strptime(text, current_year + 1)
        ELSE IF current_month = 1 /\ Get(first).month = 12
             THEN (IF DateLt(Get(first), now)
                   THEN strptime(text, current_year - 1)
                   ELSE first)
        ELSE first

\* Source._parse_collection_date, with date.today() as a parameter: the
\* date, or None where the ValueError of a strptime call propagates.
_parse_collection_date(text, now) ==
    LET current_month == now.month
        current_year == now.year
        first == strptime(text, current_year)
    IN  IF IsNone(first) THEN None
        ELSE IF current_month = 12 /\ Get(first).month <= 2
             THEN strptime(text, current_year + 1)
        ELSE IF current_month = 1 /\ Get(first).month = 12
             THEN (IF DateLt(Get(first), now)
                   THEN strptime(text, current_year - 1)
                   ELSE first)
        ELSE first

----------------------------------------------------------------------------
(* Configuration constants *)

URL == << "h", "t", "t", "p", "s", ":", "/", "/", "c", "o", "r", "n", "w", "a", "l", "l", ".", "g", "o", "v", ".", "u", "k" >>

\* the raw kind labels of the council's page that NAME_MAP knows
Food == << "F", "o", "o", "d" >>
Recycling == << "R", "e", "c", "y", "c", "l", "i", "n", "g" >>
Rubbish == << "R", "u", "b", "b", "i", "s", "h" >>
Garden == << "G", "a", "r", "d", "e", "n" >>

FoodWasteCollection == << "F", "o", "o", "d", " ", "W", "a", "s", "t", "e", " ", "C", "o", "l", "l", "e", "c", "t", "i", "o", "n" >>
RecyclingCollection == << "R", "e", "c", "y", "c", "l", "i", "n", "g", " ", "C", "o", "l", "l", "e", "c", "t", "i", "o", "n" >>
RubbishRecycling == << "R", "u", "b", "b", "i", "s", "h", " ", "R", "e", "c", "y", "c", "l", "i", "n", "g" >>
GardenWasteCollection == << "G", "a", "r", "d", "e", "n", " ", "W", "a", "s", "t", "e", " ", "C", "o", "l", "l", "e", "c", "t", "i", "o", "n" >>

\* ICON_MAP.get(collection)
ICON_MAP_get(collection) ==
    IF collection = Rubbish THEN Some("mdi:delete")
    ELSE IF collection = Recycling THEN Some("mdi:recycle")
    ELSE IF collection = Garden THEN Some("mdi:flower")
    ELSE None

\* NAME_MAP.get(collection, collection)
NAME_MAP_get(collection) ==
    IF collection = Food THEN FoodWasteCollection
    ELSE IF collection = Recycling THEN RecyclingCollection
    ELSE IF collection = Rubbish THEN RubbishRecycling
    ELSE IF collection = Garden THEN GardenWasteCollection
    ELSE collection

\* INCLUDE_VARS.get(collection_name)
INCLUDE_VARS_get(collection_name) ==
    IF collection_name = FoodWasteCollection THEN Some("INCLUDE_FOOD")
    ELSE IF collection_name = RecyclingCollection THEN Some("INCLUDE_RECYCLING")
    ELSE IF collection_name = RubbishRecycling THEN Some("INCLUDE_RUBBISH")
    ELSE IF collection_name = GardenWasteCollection THEN Some("INCLUDE_GARDEN")
    ELSE None

\* the values of the `in {"1", "true", "yes", "on"}` test
TruthyWords == { << "1" >>, << "t", "r", "u", "e" >>, << "y", "e", "s" >>, << "o", "n" >> }

EnvNames == { "UPRN", "POSTCODE", "HOUSE_NUMBER_OR_NAME", "INCLUDE_FOOD",
              "INCLUDE_RECYCLING", "INCLUDE_RUBBISH", "INCLUDE_GARDEN" }

\* os.getenv(name) in environment env
getenv(env, name) == env[name]

\* _is_enabled returning False for a name that has no INCLUDE_* variable
is_enabled_known_only(collection_name, env) ==
    LET env_var == INCLUDE_VARS_get(collection_name)
        value == IF IsNone(env_var) THEN None ELSE getenv(env, Get(env_var))
    IN  IF IsNone(env_var) THEN FALSE
        ELSE IF IsNone(value) \/ Len(Get(value)) = 0 THEN TRUE
        ELSE lower(strip(Get(value))) \in TruthyWords

\* _is_enabled(collection_name), reading environment env
_is_enabled(collection_name, env) ==
    LET env_var == INCLUDE_VARS_get(collection_name)
        value == IF IsNone(env_var) THEN None ELSE getenv(env, Get(env_var))
    IN  IF IsNone(value) \/ Len(Get(value)) = 0 THEN TRUE
        ELSE lower(strip(Get(value))) \in TruthyWords

----------------------------------------------------------------------------
(* Formatting *)

Digits == << "0", "1", "2", "3", "4", "5", "6", "7", "8", "9" >>

\* a number as nd zero-padded decimal digits
Padded(n, nd) ==
    [ i \in 1..nd |-> Digits[((n \div (10 ^ (nd - i))) % 10) + 1] ]

\* f"{d:%Y%m%d}"
strftime_Ymd(d) == Padded(d.year, 4) \o Padded(d.month, 2) \o Padded(d.day, 2)

\* f"{d:%Y-%m-%d}"
strftime_Y_m_d(d) ==
    Padded(d.year, 4) \o << "-" >> \o Padded(d.month, 2) \o << "-" >> \o Padded(d.day, 2)

\* datetime.now(timezone.utc).strftime("%Y%m%dT%H%M%SZ") for a clock reading
strftime_stamp(clock) ==
    strftime_Ymd(clock.date) \o << "T" >> \o Padded(clock.hour, 2)
        \o Padded(clock.minute, 2) \o Padded(clock.second, 2) \o << "Z" >>

RECURSIVE join(_, _)
\* sep.join(parts)
join(sep, parts) ==
    IF Len(parts) = 0 THEN << >>
    ELSE IF Len(parts) = 1 THEN parts[1]
    ELSE parts[1] \o sep \o join(sep, Tail(parts))

----------------------------------------------------------------------------
(* Collection and the iCalendar document *)

Collection(date, type, icon) == [date |-> date, type |-> type, icon |-> icon]

\* one line of the document: the literal text of the source line and the
\* text interpolated after it
Line(lit, arg) == [lit |-> lit, arg |-> arg]

\* the UID line's value: f"{c.date:%Y%m%d}-{c.type.replace(' ', '')}@{URL}"
UidOf(c) == strftime_Ymd(c.date) \o << "-" >> \o replace_spaces(c.type) \o << "@" >> \o URL

\* the seven lines of one VEVENT block
VEvent(c, dtstamp) ==
    << Line("BEGIN:VEVENT", << >>),
       Line("UID:", UidOf(c)),
       Line("SUMMARY:", c.type),
       Line("DTSTAMP:", dtstamp),
       Line("DTSTART;VALUE=DATE:", strftime_Ymd(c.date)),
       Line("DTEND;VALUE=DATE:", strftime_Ymd(NextDay(c.date))),
       Line("END:VEVENT", << >>) >>

RECURSIVE VEvents(_, _)
\* the loop over collections, extending lines
VEvents(cs, dtstamp) ==
    IF Len(cs) = 0 THEN << >>
    ELSE VEvent(Head(cs), dtstamp) \o VEvents(Tail(cs), dtstamp)

\* _build_ics(collections), with the dtstamp text as a parameter: the lines
\* that "\r\n".join(lines) + "\r\n" writes one per line
_build_ics(cs, dtstamp) ==
    << Line("BEGIN:VCALENDAR", << >>),
       Line("VERSION:2.0", << >>),
       Line("PRODID:-//Cornwall Council//Waste Collection//EN", << >>),
       Line("CALSCALE:GREGORIAN", << >>),
       Line("METHOD:PUBLISH", << >>) >>
    \o VEvents(cs, dtstamp)
    \o << Line("END:VCALENDAR", << >>) >>

----------------------------------------------------------------------------
(* Log records and printed lines *)

Log(level, msg) == [level |-> level, msg |-> msg, text |-> << >>]
Printed(text) == [level |-> "print", msg |-> "", text |-> text]

\* print_collections(collections): what it appends to stdout
print_collections(cs) ==
    IF Len(cs) = 0 THEN << Log("WARNING", "No collections to display") >>
    ELSE << Log("INFO", "Upcoming waste collections:") >>
         \o [ i \in 1..Len(cs) |->
                Printed(strftime_Y_m_d(cs[i].date) \o << " ", "-", " " >> \o cs[i].type) ]

----------------------------------------------------------------------------
(* Exceptions *)

Exception(type, argument, value, suggestions) ==
    [type |-> type, argument |-> argument, value |-> value,
     suggestions |-> suggestions,
     suggestion_text |-> join(<< ",", " " >>, suggestions)]

NoException == Exception("None", "", << >>, << >>)
ValueError == Exception("ValueError", "", << >>, << >>)
RequestException == Exception("RequestException", "", << >>, << >>)
SourceArgumentNotFound(argument, value) ==
    Exception("SourceArgumentNotFound", argument, value, << >>)
SourceArgumentNotFoundWithSuggestions(argument, value, suggestions) ==
    Exception("SourceArgumentNotFoundWithSuggestions", argument, value, suggestions)

----------------------------------------------------------------------------
(* Source.fetch: its loops as operators *)

\* Python truthiness of an optional str
Truthy(o) == ~IsNone(o) /\ Len(Get(o)) > 0

\* An <option> of the Uprn <select>: match.text and match["value"]
Option(text, value) == [text |-> text, value |-> value]

\* FirstMatch without the `break`: the last matching option wins
LastMatch(property_uprns, house) ==
    LET wanted == IF IsNone(house) THEN << >> ELSE Get(house)
        hits == { i \in 1..Len(property_uprns) :
                    startswith(property_uprns[i].text, wanted) }
    IN  IF hits = {} THEN None
        ELSE Some(property_uprns[CHOOSE i \in hits : \A j \in hits : j <= i].value)

\* the loop `for match in property_uprns: if match.text.startswith(...): ... break`:
\* the value of the first option whose text starts with the house identifier
\* (with "" where it is None), or None when the loop ends without a match
FirstMatch(property_uprns, house) ==
    LET wanted == IF IsNone(house) THEN << >> ELSE Get(house)
        hits == { i \in 1..Len(property_uprns) :
                    startswith(property_uprns[i].text, wanted) }
    IN  IF hits = {} THEN None
        ELSE Some(property_uprns[CHOOSE i \in hits : \A j \in hits : i <= j].value)

\* Suggestions built from match["value"] instead of match.text
ValueSuggestions(property_uprns) ==
    [ i \in 1..Len(property_uprns) |-> property_uprns[i].value ]

\* [match.text for match in property_uprns]
Suggestions(property_uprns) ==
    [ i \in 1..Len(property_uprns) |-> property_uprns[i].text ]

\* A <div class="collection">: the text of its first span and of its last span
Row(kind, text) == [kind |-> kind, text |-> text]

\* the body of the loop over the divs for one div: the Collection appended,
\* or None where _parse_collection_date raised ValueError
EntryOf(row, now) ==
    LET collection == strip(row.kind)
        name == NAME_MAP_get(collection)
        collection_date == _parse_collection_date(row.text, now)
    IN  IF IsNone(collection_date) THEN None
        ELSE Some(Collection(Get(collection_date), name, ICON_MAP_get(collection)))

RECURSIVE EntriesUntilFailure(_, _)
\* Entries with `break` in place of `continue` in the except clause
EntriesUntilFailure(rows, now) ==
    IF Len(rows) = 0 \/ IsNone(EntryOf(Head(rows), now)) THEN << >>
    ELSE EntryOf(Head(rows), now) \o EntriesUntilFailure(Tail(rows), now)

RECURSIVE Entries(_, _)
\* the loop over the divs: the entries list it builds
Entries(rows, now) ==
    IF Len(rows) = 0 THEN << >>
    ELSE EntryOf(Head(rows), now) \o Entries(Tail(rows), now)

RECURSIVE ParseWarnings(_, _)
\* the loop over the divs: the warnings it logs
ParseWarnings(rows, now) ==
    IF Len(rows) = 0 THEN << >>
    ELSE (IF IsNone(EntryOf(Head(rows), now))
          THEN << Log("WARNING", "Failed to parse date '%s' for collection '%s': %s") >>
          ELSE << >>)
         \o ParseWarnings(Tail(rows), now)

\* [c for c in collections if _is_enabled(c.type)]
Enabled(cs, env) == SelectSeq(cs, LAMBDA c : _is_enabled(c.type, env))

----------------------------------------------------------------------------
(* The inputs of a run: the environment, the clock, the council's pages *)

SeqsUpTo(S, n) == UNION { [1..k -> S] : k \in 0..n }

Years == FirstYear .. (FirstYear + NumYears - 1)

\* os.environ with UPRN, POSTCODE, HOUSE_NUMBER_OR_NAME, INCLUDE_FOOD and
\* INCLUDE_RUBBISH as given and the other variables unset
Env(uprn, postcode, house, food, rubbish) ==
    [ n \in EnvNames |->
        IF n = "UPRN" THEN uprn
        ELSE IF n = "POSTCODE" THEN postcode
        ELSE IF n = "HOUSE_NUMBER_OR_NAME" THEN house
        ELSE IF n = "INCLUDE_FOOD" THEN food
        ELSE IF n = "INCLUDE_RUBBISH" THEN rubbish
        ELSE None ]

UprnValues == { None, Some(<< >>), Some(<< "9", "9" >>) }
PostcodeValues == { None, Some(<< >>), Some(<< "T", "R", "1" >>) }
HouseValues == { None, Some(<< >>), Some(<< "1" >>), Some(<< "1", "0" >>), Some(<< "3" >>) }
FoodToggles == { None, Some(<< >>), Some(<< "f", "a", "l", "s", "e" >>), Some(<< " ", "O", "n", " " >>) }
RubbishToggles == { None, Some(<< "n", "o" >>) }

Options == { Option(<< "1", " ", "A" >>, << "1", "1" >>), Option(<< "1", "0", " ", "B" >>, << "1", "2" >>) }

DateText(day, mon) == [day |-> day, mon |-> mon]
NoText == DateText(0, "")

\* an unrecognized kind label, as the page pads it
PaddedUnknownKind == << "F", "o", "o", "d", "W", "a", "s", "t", "e", "C", "o", "l", "l", "e", "c", "t", "i", "o", "n", " " >>

\* the rows a collection page is made of
RowValues == { Row(Food, DateText(20, "Jan")),
               Row(Food, DateText(15, "Jan")),
               Row(Rubbish, DateText(15, "Jan")),
               Row(Rubbish, DateText(31, "Foo")),
               Row(PaddedUnknownKind, DateText(15, "Jan")) }

\* the clock readings of one day that stamp the document
Clocks(d) == { [date |-> d, hour |-> 6, minute |-> 0, second |-> 0],
               [date |-> d, hour |-> 18, minute |-> 30, second |-> 5] }

RunDay == Date(FirstYear + 1, 12, 28)

\* runs that differ in how the property is identified
InitResolution ==
    /\ environ \in { Env(u, p, h, None, None) :
                       u \in UprnValues, p \in PostcodeValues, h \in HouseValues }
    /\ site_uprn \in { None } \cup { Some(l) : l \in SeqsUpTo(Options, MaxOptions) }
    /\ site_rows \in { << >>, << Row(Food, DateText(15, "Jan")) >> }

\* runs that differ in what the collection page holds and in the toggles
InitAssembly ==
    /\ environ \in { Env(Some(<< "9", "9" >>), None, None, f, r) :
                       f \in FoodToggles, r \in RubbishToggles }
    /\ site_uprn = None
    /\ site_rows \in SeqsUpTo(RowValues, MaxRows)

Init ==
    /\ pc = "start"
    /\ today = RunDay
    /\ InitResolution \/ InitAssembly
    /\ _uprn = None
    /\ _postcode = None
    /\ _housenumberorname = None
    /\ requests = << >>
    /\ entries = << >>
    /\ collections = << >>
    /\ exc = NoException
    /\ stdout = << >>
    /\ ics = None
    /\ exit_code = None
    /\ date_str = NoText
    /\ parsed = None

----------------------------------------------------------------------------
(* The run of main() *)

Request(url, param) == [url |-> url, param |-> param]

\* main: validate_environment(), then Source(uprn, postcode, house)
ValidateEnvironment ==
    /\ pc = "start"
    /\ LET uprn == getenv(environ, "UPRN")
           postcode == getenv(environ, "POSTCODE")
           house == getenv(environ, "HOUSE_NUMBER_OR_NAME")
       IN  IF ~Truthy(uprn) /\ ~Truthy(postcode)
           THEN /\ exc' = ValueError
                /\ pc' = "except"
                /\ UNCHANGED << _uprn, _postcode, _housenumberorname, stdout >>
           ELSE /\ stdout' = stdout
                      \o (IF Truthy(postcode) /\ ~Truthy(house)
                          THEN << Log("WARNING", "POSTCODE is set but HOUSE_NUMBER_OR_NAME is not. This may result in matching the first property at the postcode.") >>
                          ELSE << >>)
                      \o << Log("INFO", "Starting Cornwall waste collection calendar generator") >>
                /\ _uprn' = uprn
                /\ _postcode' = postcode
                /\ _housenumberorname' = (IF Truthy(house) THEN house ELSE None)
                /\ pc' = "resolve"
                /\ UNCHANGED exc
    /\ UNCHANGED << environ, today, site_uprn, site_rows, requests, entries,
                    collections, ics, exit_code, date_str, parsed >>

\* Source.fetch, first half: find the UPRN from the postcode and the house
\* identifier unless a UPRN was given
Resolve ==
    /\ pc = "resolve"
    /\ IF ~IsNone(_uprn)
       THEN /\ pc' = "collect"
            /\ UNCHANGED << _uprn, requests, exc, stdout >>
       ELSE IF ~Truthy(_postcode)
       THEN /\ exc' = ValueError
            /\ pc' = "except"
            /\ UNCHANGED << _uprn, requests, stdout >>
       ELSE /\ requests' = Append(requests, Request("uprn_search", Get(_postcode)))
            /\ \E status_ok \in BOOLEAN :
                 IF ~status_ok
                 THEN /\ exc' = RequestException
                      /\ pc' = "except"
                      /\ stdout' = Append(stdout, Log("INFO", "Looking up UPRN for postcode: %s, house: %s"))
                      /\ UNCHANGED _uprn
                 ELSE IF IsNone(site_uprn) \/ Len(Get(site_uprn)) = 0
                 THEN /\ exc' = SourceArgumentNotFound("postcode", Get(_postcode))
                      /\ pc' = "except"
                      /\ stdout' = Append(stdout, Log("INFO", "Looking up UPRN for postcode: %s, house: %s"))
                      /\ UNCHANGED _uprn
                 ELSE LET property_uprns == Get(site_uprn)
                          found == FirstMatch(property_uprns, _housenumberorname)
                      IN  IF IsNone(found)
                          THEN /\ exc' = SourceArgumentNotFoundWithSuggestions(
                                            "housenumberorname",
                                            IF IsNone(_housenumberorname) THEN << >>
                                            ELSE Get(_housenumberorname),
                                            Suggestions(property_uprns))
                               /\ pc' = "except"
                               /\ stdout' = Append(stdout, Log("INFO", "Looking up UPRN for postcode: %s, house: %s"))
                               /\ UNCHANGED _uprn
                          ELSE /\ _uprn' = found
                               /\ stdout' = stdout
                                     \o << Log("INFO", "Looking up UPRN for postcode: %s, house: %s"),
                                           Log("INFO", "Found UPRN: %s") >>
                               /\ pc' = "collect"
                               /\ UNCHANGED exc
    /\ UNCHANGED << environ, today, site_uprn, site_rows, _postcode,
                    _housenumberorname, entries, collections, ics, exit_code,
                    date_str, parsed >>

\* Source.fetch, second half: get the collection days of the UPRN and build
\* the entries
CollectionSearch ==
    /\ pc = "collect"
    /\ requests' = Append(requests, Request("collection_search", Get(_uprn)))
    /\ \E status_ok \in BOOLEAN :
         IF ~status_ok
         THEN /\ exc' = RequestException
              /\ pc' = "except"
              /\ stdout' = Append(stdout, Log("INFO", "Fetching collection dates for UPRN: %s"))
              /\ UNCHANGED entries
         ELSE /\ entries' = Entries(site_rows, today)
              /\ stdout' = stdout
                    \o << Log("INFO", "Fetching collection dates for UPRN: %s") >>
                    \o ParseWarnings(site_rows, today)
                    \o << Log("INFO", "Found %d collection entries") >>
              /\ pc' = "fetched"
              /\ UNCHANGED exc
    /\ UNCHANGED << environ, today, site_uprn, site_rows, _uprn, _postcode,
                    _housenumberorname, collections, ics, exit_code, date_str,
                    parsed >>

\* FilterCollections without the early return on an empty fetch
FilterCollectionsNoEarlyReturn ==
    /\ pc = "fetched"
    /\ collections' = Enabled(entries, environ)
    /\ stdout' = stdout
          \o (IF Len(entries) - Len(Enabled(entries, environ)) > 0
              THEN << Log("INFO", "Filtered out %d collection(s) based on INCLUDE_* settings") >>
              ELSE << >>)
    /\ pc' = "emit"
    /\ UNCHANGED << environ, today, site_uprn, site_rows, _uprn, _postcode,
                    _housenumberorname, requests, entries, exc, ics, exit_code,
                    date_str, parsed >>

\* main: `if not collections: ... return`, then the INCLUDE_* filter
FilterCollections ==
    /\ pc = "fetched"
    /\ IF Len(entries) = 0
       THEN /\ stdout' = Append(stdout, Log("WARNING", "No collections found"))
            /\ pc' = "return"
            /\ UNCHANGED collections
       ELSE /\ collections' = Enabled(entries, environ)
            /\ stdout' = stdout
                  \o (IF Len(entries) - Len(Enabled(entries, environ)) > 0
                      THEN << Log("INFO", "Filtered out %d collection(s) based on INCLUDE_* settings") >>
                      ELSE << >>)
            /\ pc' = "emit"
    /\ UNCHANGED << environ, today, site_uprn, site_rows, _uprn, _postcode,
                    _housenumberorname, requests, entries, exc, ics, exit_code,
                    date_str, parsed >>

\* main: print_collections(collections), write_ics_file(collections)
WriteResults ==
    /\ pc = "emit"
    /\ \E clock \in Clocks(today) :
         ics' = Some(_build_ics(collections, strftime_stamp(clock)))
    /\ stdout' = stdout
          \o print_collections(collections)
          \o << Log("INFO", "iCalendar file written to %s"),
                Log("INFO", "Processing complete") >>
    /\ pc' = "return"
    /\ UNCHANGED << environ, today, site_uprn, site_rows, _uprn, _postcode,
                    _housenumberorname, requests, entries, collections, exc,
                    exit_code, date_str, parsed >>

\* main returns: the process ends with status 0
Return ==
    /\ pc = "return"
    /\ exit_code' = Some(0)
    /\ pc' = "done"
    /\ UNCHANGED << environ, today, site_uprn, site_rows, _uprn, _postcode,
                    _housenumberorname, requests, entries, collections, exc,
                    stdout, ics, date_str, parsed >>

\* HandleException without sys.exit(1): main returns after logging
HandleExceptionNoExit ==
    /\ pc = "except"
    /\ stdout' = Append(stdout,
          IF exc.type = "RequestException"
          THEN Log("ERROR", "Network error while fetching data: %s")
          ELSE Log("ERROR", "Configuration or lookup error: %s"))
    /\ exit_code' = Some(0)
    /\ pc' = "done"
    /\ UNCHANGED << environ, today, site_uprn, site_rows, _uprn, _postcode,
                    _housenumberorname, requests, entries, collections, exc,
                    ics, date_str, parsed >>

\* main: the except clauses: log the error, sys.exit(1)
HandleException ==
    /\ pc = "except"
    /\ stdout' = Append(stdout,
          IF exc.type = "RequestException"
          THEN Log("ERROR", "Network error while fetching data: %s")
          ELSE Log("ERROR", "Configuration or lookup error: %s"))
    /\ exit_code' = Some(1)
    /\ pc' = "done"
    /\ UNCHANGED << environ, today, site_uprn, site_rows, _uprn, _postcode,
                    _housenumberorname, requests, entries, collections, exc,
                    ics, date_str, parsed >>

Next ==
    \/ ValidateEnvironment
    \/ Resolve
    \/ CollectionSearch
    \/ FilterCollections
    \/ WriteResults
    \/ Return
    \/ HandleException

Spec == Init /\ [][Next]_vars

----------------------------------------------------------------------------
(* Source._parse_collection_date on its own *)

TodayDays(y, m) == { 1, 2, 15, 28, DaysInMonth(y, m) }
InferTodays ==
    UNION { { Date(y, m, d) : d \in TodayDays(y, m) } : y \in Years, m \in 1..12 }
InferTexts == { DateText(d, w) : d \in {0, 1, 2, 15, 28, 29, 30, 31, 32},
                                 w \in { MonthAbbr[m] : m \in 1..12 } \cup {"Foo"} }

InitInfer ==
    /\ pc = "infer"
    /\ today \in InferTodays
    /\ date_str \in InferTexts
    /\ parsed = None
    /\ environ = Env(None, None, None, None, None)
    /\ site_uprn = None
    /\ site_rows = << >>
    /\ _uprn = None
    /\ _postcode = None
    /\ _housenumberorname = None
    /\ requests = << >>
    /\ entries = << >>
    /\ collections = << >>
    /\ exc = NoException
    /\ stdout = << >>
    /\ ics = None
    /\ exit_code = None

\* one call self._parse_collection_date(date_str) on day `today`
ParseCollectionDate ==
    /\ pc = "infer"
    /\ parsed' = Some(_parse_collection_date(date_str, today))
    /\ pc' = "inferred"
    /\ UNCHANGED << environ, today, site_uprn, site_rows, _uprn, _postcode,
                    _housenumberorname, requests, entries, collections, exc,
                    stdout, ics, exit_code, date_str >>

NextInfer == ParseCollectionDate

SpecInfer == InitInfer /\ [][NextInfer]_vars

----------------------------------------------------------------------------
(* Claims about the year inference, checked under SpecInfer *)

\* the month a date text names, 0 when its month word is no month
MonthNamed(text) ==
    IF \E m \in 1..12 : MonthAbbr[m] = text.mon
    THEN CHOOSE m \in 1..12 : MonthAbbr[m] = text.mon
    ELSE 0

\* the most days the month has in any year
LongestMonth(m) == IF m = 2 THEN 29 ELSE IF m \in {4, 6, 9, 11} THEN 30 ELSE 31

\* the call has returned or raised
Inferred == pc = "inferred"

\* what the call did: returned date d / raised ValueError
Returned(d) == parsed = Some(Some(d))
Raised == parsed = Some(None)

\* C1: in December, every day/month text naming a day of January or February
\* (a day that exists in the coming year) is returned as that day and month of
\* year today.year + 1.
C1_DecemberGivesNextYear ==
    ( /\ Inferred
      /\ today.month = 12
      /\ MonthNamed(date_str) \in {1, 2}
      /\ date_str.day \in 1..DaysInMonth(today.year + 1, MonthNamed(date_str)) )
    => Returned(Date(today.year + 1, MonthNamed(date_str), date_str.day))

C8_AnyValidTextGivesCurrentYear ==
    ( /\ Inferred
      /\ today.month \notin {1, 12}
      /\ MonthNamed(date_str) # 0
      /\ date_str.day \in 1..LongestMonth(MonthNamed(date_str)) )
    => Returned(Date(today.year, MonthNamed(date_str), date_str.day))

\* C8 as amended: outside December and January, a day/month text naming a day
\* that exists in today.year is returned as that day and month of today.year,
\* and 29 Feb in a today.year that is no leap year raises ValueError.
C8_TextOfCurrentYearGivesCurrentYear ==
    ( /\ Inferred
      /\ today.month \notin {1, 12}
      /\ MonthNamed(date_str) # 0
      /\ date_str.day \in 1..LongestMonth(MonthNamed(date_str)) )
    => IF date_str.day <= DaysInMonth(today.year, MonthNamed(date_str))
       THEN Returned(Date(today.year, MonthNamed(date_str), date_str.day))
       ELSE /\ date_str = DateText(29, "Feb")
            /\ ~IsLeap(today.year)
            /\ Raised

\* C8 witness: a November run has parsed "29 Feb" in a leap year
C8_Witness ==
    /\ Inferred
    /\ today.month = 11
    /\ date_str = DateText(29, "Feb")
    /\ Returned(Date(today.year, 2, 29))

----------------------------------------------------------------------------
(* Claims about the address resolution, checked under Spec *)

\* the my-area page was fetched and read: the lookup request was made and
\* was not the one that failed in transport
LookupAnswered ==
    /\ Len(requests) >= 1
    /\ requests[1].url = "uprn_search"
    /\ ~(Len(requests) = 1 /\ exc.type = "RequestException")

\* the page listed at least one property
ListingNonEmpty == ~IsNone(site_uprn) /\ Len(Get(site_uprn)) > 0

\* the labels of the listing, in listing order
Labels == [ i \in 1..Len(Get(site_uprn)) |-> Get(site_uprn)[i].text ]

\* text p is a prefix of text s
IsPrefix(p, s) == Len(p) <= Len(s) /\ SubSeq(s, 1, Len(p)) = p

\* the run was given no house identifier (unset or empty)
NoHouseGiven == ~Truthy(getenv(environ, "HOUSE_NUMBER_OR_NAME"))

\* C2 as stated: with an absent or empty house identifier and a non-empty
\* listing, the resolution selects nothing and fails with the
\* house-identifier failure carrying the listing's labels.
C2_NoHouseFailsWithSuggestions ==
    (LookupAnswered /\ ListingNonEmpty /\ NoHouseGiven)
    => /\ exc.type = "SourceArgumentNotFoundWithSuggestions"
       /\ exc.suggestions = Labels
       /\ IsNone(_uprn)

\* C2 as amended: with an absent or empty house identifier and a non-empty
\* listing, the resolution selects the first property of the listing (the
\* empty prefix matches every label) and never fails with a lookup failure.
C2_NoHouseSelectsFirst ==
    (LookupAnswered /\ ListingNonEmpty /\ NoHouseGiven)
    => /\ _uprn = Some(Get(site_uprn)[1].value)
       /\ exc.type \notin {"SourceArgumentNotFound", "SourceArgumentNotFoundWithSuggestions"}
       /\ stdout[1].level = "WARNING"

\* C2 witness: a run with an empty HOUSE_NUMBER_OR_NAME has taken the first of
\* two different properties and gone on to fetch its collections
C2_Witness ==
    /\ getenv(environ, "HOUSE_NUMBER_OR_NAME") = Some(<< >>)
    /\ ListingNonEmpty
    /\ Len(Get(site_uprn)) = 2
    /\ Get(site_uprn)[1].value # Get(site_uprn)[2].value
    /\ _uprn = Some(Get(site_uprn)[1].value)
    /\ Len(requests) = 2
    /\ requests[2] = Request("collection_search", Get(site_uprn)[1].value)

\* C3: with a non-empty listing and a house identifier that is a prefix of no
\* label, the resolution fails with the house-identifier failure whose
\* suggestions are the listing's labels, all and in order; no UPRN is set and
\* no collection request is made.
C3_NoMatchSuggestsAllLabels ==
    ( /\ LookupAnswered
      /\ ListingNonEmpty
      /\ ~NoHouseGiven
      /\ \A i \in 1..Len(Labels) :
            ~IsPrefix(Get(getenv(environ, "HOUSE_NUMBER_OR_NAME")), Labels[i]) )
    => /\ exc.type = "SourceArgumentNotFoundWithSuggestions"
       /\ exc.argument = "housenumberorname"
       /\ exc.value = Get(getenv(environ, "HOUSE_NUMBER_OR_NAME"))
       /\ exc.suggestions = Labels
       /\ exc.suggestion_text = join(<< ",", " " >>, Labels)
       /\ IsNone(_uprn)
       /\ Len(requests) = 1
       /\ IsNone(ics)

\* C3 witness: a run has ended on the failure with two suggestions
C3_Witness ==
    /\ pc = "done"
    /\ exc.type = "SourceArgumentNotFoundWithSuggestions"
    /\ Len(exc.suggestions) = 2
    /\ exc.suggestions[1] # exc.suggestions[2]
    /\ exit_code = Some(1)

----------------------------------------------------------------------------
(* Claims about the assembly, the filter and the document, checked under Spec *)

\* no exception has left the try block
NoFailure == exc.type = "None"

\* Source.fetch has returned its entries to main
Fetched == pc \in {"fetched", "emit", "return", "done"} /\ NoFailure

\* main is past the filter
Filtered == pc \in {"emit", "return", "done"} /\ NoFailure

\* the settings that switch a toggle off, among those of the runs
FalseSettings == { Some(<< "f", "a", "l", "s", "e" >>), Some(<< "n", "o" >>) }

\* the display name's include toggle is false
ToggledOff(name) ==
    \/ name = FoodWasteCollection /\ getenv(environ, "INCLUDE_FOOD") \in FalseSettings
    \/ name = RecyclingCollection /\ getenv(environ, "INCLUDE_RECYCLING") \in FalseSettings
    \/ name = RubbishRecycling /\ getenv(environ, "INCLUDE_RUBBISH") \in FalseSettings
    \/ name = GardenWasteCollection /\ getenv(environ, "INCLUDE_GARDEN") \in FalseSettings

\* C5: the filtered list holds no Collection whose display name's toggle is
\* false and every other fetched Collection (those of unrecognized kinds
\* included), in unchanged order; with no toggle set it is the fetched list.
C5_FilterRemovesExactlyToggledOff ==
    Filtered
    => /\ collections = SelectSeq(entries, LAMBDA c : ~ToggledOff(c.type))
       /\ (\A n \in EnvNames \ {"UPRN", "POSTCODE", "HOUSE_NUMBER_OR_NAME"} :
              IsNone(getenv(environ, n)))
          => collections = entries

\* C5 witness: a run with INCLUDE_FOOD=false has dropped the Food Collection
\* between a Collection of an unrecognized kind and a Rubbish Collection
C5_Witness ==
    /\ pc = "done"
    /\ NoFailure
    /\ getenv(environ, "INCLUDE_FOOD") = Some(<< "f", "a", "l", "s", "e" >>)
    /\ Len(entries) = 3
    /\ entries[2].type = FoodWasteCollection
    /\ Len(collections) = 2
    /\ collections[1].type = replace_spaces(FoodWasteCollection)
    /\ collections[2].type = RubbishRecycling

\* the rows of the collection page whose date text parses, in page order
ParsingRows ==
    SelectSeq(site_rows, LAMBDA r : ~IsNone(_parse_collection_date(r.text, today)))

\* the number of parse warnings logged
ParseWarningCount ==
    Cardinality({ i \in 1..Len(stdout) :
        stdout[i] = Log("WARNING", "Failed to parse date '%s' for collection '%s': %s") })

\* C6: a date text that fails to parse costs only its row: the fetched list
\* is the rows whose date text parses, in page order, each malformed row is
\* logged as a warning, and the run ends with status 0.
C6_MalformedRowsAreSkipped ==
    Fetched
    => /\ Len(entries) = Len(ParsingRows)
       /\ \A i \in 1..Len(entries) :
            /\ entries[i].date = Get(_parse_collection_date(ParsingRows[i].text, today))
            /\ entries[i].type = NAME_MAP_get(strip(ParsingRows[i].kind))
       /\ ParseWarningCount = Len(site_rows) - Len(ParsingRows)
       /\ pc = "done" => exit_code = Some(0)

\* C6 witness: a run has ended with status 0 after dropping the malformed
\* middle row of three and keeping the later date before the earlier one
C6_Witness ==
    /\ pc = "done"
    /\ exit_code = Some(0)
    /\ Len(site_rows) = 3
    /\ site_rows[2].text = DateText(31, "Foo")
    /\ Len(entries) = 2
    /\ DateLt(entries[2].date, entries[1].date)
    /\ ~IsNone(ics)

\* the document has the calendar's header and footer and no VEVENT block
IsEmptyCalendar(doc) ==
    /\ Len(doc) >= 2
    /\ doc[1] = Line("BEGIN:VCALENDAR", << >>)
    /\ doc[Len(doc)] = Line("END:VCALENDAR", << >>)
    /\ \A i \in 1..Len(doc) : doc[i].lit # "BEGIN:VEVENT"

\* C7 as stated: a run whose fetch returned no rows, and likewise one whose
\* Collections were all filtered out, writes a calendar document with header,
\* footer and no VEVENT block and ends with status 0.
C7_EmptyResultWritesEmptyCalendar ==
    (pc = "done" /\ NoFailure /\ (Len(site_rows) = 0 \/ Len(collections) = 0))
    => /\ ~IsNone(ics)
       /\ IsEmptyCalendar(Get(ics))
       /\ exit_code = Some(0)

\* C7 as amended: a run whose fetch yielded no Collection logs a warning,
\* writes no document and ends with status 0; a run whose Collections were
\* all filtered out writes a calendar document with header, footer and no
\* VEVENT block and ends with status 0.
C7_EmptyFetchWritesNothing ==
    (pc = "done" /\ NoFailure /\ Len(collections) = 0)
    => /\ exit_code = Some(0)
       /\ IF Len(entries) = 0
          THEN /\ IsNone(ics)
               /\ stdout[Len(stdout)] = Log("WARNING", "No collections found")
          ELSE /\ ~IsNone(ics)
               /\ IsEmptyCalendar(Get(ics))

\* C7 witness: a run whose collection page held no rows has ended with
\* status 0 and no document
C7_Witness ==
    /\ pc = "done"
    /\ NoFailure
    /\ Len(requests) = 1
    /\ Len(site_rows) = 0
    /\ IsNone(ics)
    /\ exit_code = Some(0)

\* the UID line of the k-th VEVENT block of the document
UidLine(doc, k) == doc[5 + 7 * (k - 1) + 2]

\* C9: in a written document, two VEVENT blocks carry the same UID if and
\* only if their Collections have the same date and the same display name.
C9_UidUniquePerDateAndName ==
    ~IsNone(ics)
    => \A i, j \in 1..Len(collections) :
          (UidLine(Get(ics), i) = UidLine(Get(ics), j))
          <=> ( /\ collections[i].date = collections[j].date
                /\ collections[i].type = collections[j].type )

\* a fatal error has been raised
Failed == exc.type # "None"

\* the run was given neither a UPRN nor a postcode
NoIdentifierGiven ==
    ~Truthy(getenv(environ, "UPRN")) /\ ~Truthy(getenv(environ, "POSTCODE"))

\* C10: a configuration error is raised before any outbound call; once any
\* fatal error (configuration, lookup, transport) is raised no further
\* outbound call is made, no document is written and the run ends with a
\* non-zero status.
C10_FatalErrorsEndTheRun ==
    /\ [](NoIdentifierGiven /\ pc # "start"
            => exc.type = "ValueError" /\ Len(requests) = 0)
    /\ [](Failed => IsNone(ics) /\ pc \in {"except", "done"})
    /\ [](Failed /\ pc = "done" => exit_code = Some(1))
    /\ [][Failed => requests' = requests /\ exc' = exc /\ IsNone(ics')]_vars

\* C10 witness: a run has ended with status 1 on a transport failure of the
\* collection request that followed a successful lookup
C10_Witness ==
    /\ pc = "done"
    /\ exc.type = "RequestException"
    /\ Len(requests) = 2
    /\ requests[1].url = "uprn_search"
    /\ exit_code = Some(1)
    /\ IsNone(ics)

====
